---- MODULE Spec2Model ----
(***************************************************************************)
(* Custom-element adapters for Vue and React components.                   *)
(*                                                                         *)
(*   src/unnamed/part_000                                   wrap (Vue)     *)
(*   src/_components/react/react-custom-element-wrapper.js  wrap (React)   *)
(*                                                                         *)
(* One page holds one custom element, produced by one of the two adapters. *)
(* JavaScript strings are sequences of one-character strings, so that the  *)
(* name converters, the DOM's lower-casing of attribute names and          *)
(* parseFloat are computed and not assumed.  JavaScript values are tagged  *)
(* records.                                                                *)
(***************************************************************************)
EXTENDS Integers, Sequences, FiniteSets

(***************************************************************************)
(* Bounds of the model.                                                    *)
(***************************************************************************)
\* operations the page performs on the element after it is constructed
MaxOps == 3

(***************************************************************************)
(* JavaScript values.                                                      *)
(***************************************************************************)
Undef == [t |-> "undefined"]
NaN == [t |-> "NaN"]
Bool(b) == [t |-> "boolean", b |-> b]
Num(n) == [t |-> "number", n |-> n]
Str(s) == [t |-> "string", s |-> s]
\* a plain object: its own enumerable entries, as a sequence of <<key, value>>
Obj(entries) == [t |-> "object", o |-> entries]
\* an array
Arr(items) == [t |-> "array", a |-> items]

IsStr(v) == v.t = "string"
IsBool(v) == v.t = "boolean"

(***************************************************************************)
(* Characters and strings.                                                 *)
(***************************************************************************)
Range(seq) == {seq[i] : i \in DOMAIN seq}

LowerLetters ==
  << "a", "b", "c", "d", "e", "f", "g", "h", "i", "j", "k", "l", "m",
     "n", "o", "p", "q", "r", "s", "t", "u", "v", "w", "x", "y", "z" >>
UpperLetters ==
  << "A", "B", "C", "D", "E", "F", "G", "H", "I", "J", "K", "L", "M",
     "N", "O", "P", "Q", "R", "S", "T", "U", "V", "W", "X", "Y", "Z" >>
Digits == << "0", "1", "2", "3", "4", "5", "6", "7", "8", "9" >>

IndexIn(c, seq) == IF \E i \in DOMAIN seq : seq[i] = c
                   THEN CHOOSE i \in DOMAIN seq : seq[i] = c
                   ELSE 0
LowerSet == Range(LowerLetters)
UpperSet == Range(UpperLetters)
DigitSet == Range(Digits)
UpperOf == [c \in LowerSet |-> UpperLetters[IndexIn(c, LowerLetters)]]
LowerOf == [c \in UpperSet |-> LowerLetters[IndexIn(c, UpperLetters)]]
DigitOf == [c \in DigitSet |-> IndexIn(c, Digits) - 1]
IsLower(c) == c \in LowerSet
IsUpper(c) == c \in UpperSet
IsDigit(c) == c \in DigitSet
\* the regular expression class \w
IsWordChar(c) == IsLower(c) \/ IsUpper(c) \/ IsDigit(c) \/ c = "_"
ToUpperChar(c) == IF IsLower(c) THEN UpperOf[c] ELSE c
ToLowerChar(c) == IF IsUpper(c) THEN LowerOf[c] ELSE c

\* String.prototype.toLowerCase; also what Element.setAttribute, getAttribute,
\* hasAttribute and removeAttribute do to the name they are given on an HTML
\* element.
ToLowerCase(s) == [i \in DOMAIN s |-> ToLowerChar(s[i])]

\* utils.js camelize: every "-x" with x a word character becomes "X".
RECURSIVE camelize(_)
camelize(s) ==
  IF s = << >> THEN << >>
  ELSE IF Len(s) >= 2 /\ s[1] = "-" /\ IsWordChar(s[2])
       THEN << ToUpperChar(s[2]) >> \o camelize(SubSeq(s, 3, Len(s)))
       ELSE << s[1] >> \o camelize(Tail(s))

\* utils.js hyphenate: a "-" goes before every upper-case letter that follows
\* a word character, and the whole is lower-cased.
RECURSIVE HyphenateFrom(_, _)
HyphenateFrom(s, i) ==
  IF i > Len(s) THEN << >>
  ELSE (IF i > 1 /\ IsUpper(s[i]) /\ IsWordChar(s[i - 1])
        THEN << "-", ToLowerChar(s[i]) >>
        ELSE << ToLowerChar(s[i]) >>) \o HyphenateFrom(s, i + 1)
hyphenate(s) == HyphenateFrom(s, 1)

\* @vue/shared capitalize and toHandlerKey
capitalize(s) == IF s = << >> THEN s ELSE << ToUpperChar(s[1]) >> \o Tail(s)
toHandlerKey(s) == IF s = << >> THEN s ELSE << "o", "n" >> \o capitalize(s)

\* decimal value of a string of digits
RECURSIVE DigitsValue(_)
DigitsValue(s) ==
  IF s = << >> THEN 0
  ELSE 10 * DigitsValue(SubSeq(s, 1, Len(s) - 1)) + DigitOf[s[Len(s)]]

\* length of the longest prefix of s made of digits
RECURSIVE DigitPrefix(_)
DigitPrefix(s) ==
  IF s # << >> /\ IsDigit(s[1]) THEN 1 + DigitPrefix(Tail(s)) ELSE 0

\* decimal digits of a natural number
RECURSIVE NatToString(_)
NatToString(n) ==
  IF n < 10 THEN << Digits[n + 1] >>
  ELSE NatToString(n \div 10) \o << Digits[(n % 10) + 1] >>

\* JavaScript ToString, as the DOM applies it to an attribute value
JsToString(v) ==
  CASE v.t = "string" -> v.s
    [] v.t = "boolean" -> IF v.b THEN << "t", "r", "u", "e" >>
                                 ELSE << "f", "a", "l", "s", "e" >>
    [] v.t = "number" -> NatToString(v.n)
    [] v.t = "NaN" -> << "N", "a", "N" >>
    [] v.t = "undefined" -> << "u", "n", "d", "e", "f", "i", "n", "e", "d" >>
    [] OTHER -> << "[", "o", "b", "j", "e", "c", "t", " ", "O", "b", "j", "e", "c", "t", "]" >>

\* JavaScript parseFloat: the number the string starts with, NaN when it
\* starts with none.  A number is its own parse.
parseFloat(v) ==
  CASE v.t = "number" -> v
    [] v.t = "NaN" -> NaN
    [] OTHER -> LET s == JsToString(v)
                    n == DigitPrefix(s)
                IN  IF n = 0 THEN NaN ELSE Num(DigitsValue(SubSeq(s, 1, n)))

(***************************************************************************)
(* utils.js of the Vue adapter: the file is not part of the sources; these *)
(* follow the specification's description of the helpers.                  *)
(***************************************************************************)
\* getInitialProps: every listed key, holding undefined
getInitialProps(propsList) ==
  [k \in {propsList[i] : i \in DOMAIN propsList} |-> Undef]

\* convertAttributeValue(value, name, { type }): Boolean is true for "", "true"
\* and the name itself and false otherwise; Number is the numeric parse;
\* everything else passes through.
convertAttributeValue(value, name, type) ==
  CASE type = "Boolean" ->
         Bool(value \in {Str(<< >>), Str(<< "t", "r", "u", "e" >>), Str(name)})
    [] type = "Number" -> parseFloat(value)
    [] OTHER -> value

\* createCustomEvent(name, args): a CustomEvent whose detail is the arguments
createCustomEvent(name, args) == [name |-> name, detail |-> Arr(args)]

\* toVNodes(childNodes, createElement): one vnode per child node
toVNodes(nodes) == [i \in DOMAIN nodes |-> [vnode |-> nodes[i]]]

(***************************************************************************)
(* The component definitions given to the Vue adapter's wrap.              *)
(***************************************************************************)
PropUser == << "u", "s", "e", "r" >>
PropUserId == << "u", "s", "e", "r", "I", "d" >>
EventSelectMe == << "s", "e", "l", "e", "c", "t", "M", "e" >>
ComponentName == << "u", "s", "e", "r", "-", "i", "t", "e", "m" >>

\* options.props in its keyed form, as the ordered entries Object.entries
\* gives: << name, type >>, the type "none" for a declaration without one.
\* Every type tag is declared once on a one-word name and once on a name of
\* two words.
Props(ta, tb) == << << PropUser, ta >>, << PropUserId, tb >> >>

ComponentOptions ==
  { [name |-> Str(ComponentName), props |-> Props("Boolean", "Number"),
     emits |-> Arr(<< EventSelectMe >>)],
    [name |-> Str(ComponentName), props |-> Props("Number", "String"),
     emits |-> Arr(<< EventSelectMe >>)],
    [name |-> Str(ComponentName), props |-> Props("String", "Boolean"),
     emits |-> Arr(<< EventSelectMe >>)],
    [name |-> Undef, props |-> Props("Object", "none"), emits |-> Undef] }

\* the options a React component stands for in the model: the adapter reads
\* none of them
ReactComponent == [name |-> Undef, props |-> << >>, emits |-> Undef]

(***************************************************************************)
(* State.                                                                  *)
(***************************************************************************)
VARIABLES
  adapter,              \* which wrap produced the element: "vue" or "react"
  options,              \* the component definition given to wrap
  pc,                   \* "start", "wrapped" (wrap returned), "constructed"
  isInitialized,        \* wrap's flag
  hyphenatedPropsList,  \* wrap's lists, undefined before initialize
  camelizedPropsList,
  camelizedPropsMap,    \* camelCased name -> type tag
  accessors,            \* keys with an accessor on CustomElement.prototype
  installs,             \* how many times initialize installed the accessors
  className,            \* CustomElement.name
  debugLog,             \* console.debug calls of wrap
  connected,            \* the element is in the document
  attrs,                \* the element's attributes: name -> string
  own,                  \* the element's own expando properties: name -> value
  childNodes,           \* the element's child nodes
  observing,            \* the MutationObserver is observing the element
  records,              \* the observer's queue of mutation records
  _props,               \* Vue element: the props mapping
  _slotChildren,        \* Vue element: captured slot vnodes
  _component,           \* Vue element: the mounted component, or undefined
  _mounted,             \* Vue element: undefined, true or false
  appMounted,           \* the mini Vue app's own mounted state
  _innerHTML,           \* React element: innerHTML saved at connection
  rendered,             \* React element: props of the mounted component
  ops,                  \* operations of the page so far
  last                  \* what the last step did

wrapVars == << adapter, options, isInitialized, hyphenatedPropsList,
               camelizedPropsList, camelizedPropsMap, accessors, installs,
               className, debugLog >>
domVars == << connected, attrs, own, childNodes, observing, records >>
vueVars == << _props, _slotChildren, _component, _mounted, appMounted >>
reactVars == << _innerHTML, rendered >>
vars == << wrapVars, pc, domVars, vueVars, reactVars, ops, last >>

\* a function as a JavaScript object: keys and lookup
Has(obj, key) == key \in DOMAIN obj
Put(obj, key, value) ==
  [k \in DOMAIN obj \cup {key} |-> IF k = key THEN value ELSE obj[k]]
Without(obj, key) == [k \in DOMAIN obj \ {key} |-> obj[k]]
EmptyObject == [k \in {} |-> Undef]

\* what a step reports of itself: the operation, the key or branch it took,
\* the re-renders it forced, the attributes it re-derived, the mutation
\* records it examined and the events it dispatched on the host
Report(op, key, forced, synced, examined, events) ==
  [op |-> op, key |-> key, forced |-> forced, synced |-> synced,
   examined |-> examined, events |-> events]
Quiet(op) == Report(op, << >>, 0, << >>, 0, << >>)

(***************************************************************************)
(* The DOM of the host element.                                            *)
(***************************************************************************)
AttributeRecord(name) ==
  [type |-> "attributes", target |-> "self", attributeName |-> Str(name)]
ChildListRecord ==
  [type |-> "childList", target |-> "self", attributeName |-> Undef]
CharacterDataRecord ==
  [type |-> "characterData", target |-> "child", attributeName |-> Undef]
DescendantAttributeRecord ==
  [type |-> "attributes", target |-> "child",
   attributeName |-> Str(<< "i", "d" >>)]

\* what the adapter's observer was told to observe: the Vue adapter asks for
\* childList, subtree, characterData and attributes (lines 185-190), the
\* React adapter for attributes only (line 9)
Observed(rec) ==
  adapter = "vue" \/ (rec.type = "attributes" /\ rec.target = "self")

\* a record is queued only while the observer observes
Queue(q, obs, recs) == IF obs THEN q \o SelectSeq(recs, Observed) ELSE q

\* Element.hasAttribute / getAttribute / setAttribute / removeAttribute
hasAttribute(a, name) == Has(a, ToLowerCase(name))
getAttribute(a, name) == Str(a[ToLowerCase(name)])
setAttribute(a, name, value) == Put(a, ToLowerCase(name), JsToString(value))
removeAttribute(a, name) == Without(a, ToLowerCase(name))
\* the mutation records setAttribute and removeAttribute queue: removing an
\* attribute the element does not have queues none
setAttributeRecords(name) == << AttributeRecord(ToLowerCase(name)) >>
removeAttributeRecords(a, name) ==
  IF hasAttribute(a, name) THEN << AttributeRecord(ToLowerCase(name)) >> ELSE << >>

(***************************************************************************)
(* Vue adapter: wrap and initialize.                                       *)
(***************************************************************************)
\* The key of a declared property's setter that decides the coercion:
\* camelizedPropsMap[key]?.type, with "none" for no entry or no type
TypeOf(map, key) == IF Has(map, key) THEN map[key] ELSE "none"

PropNames(props) == [i \in DOMAIN props |-> props[i][1]]

\* normalizeProps and mapObj({ key: camelize })
CamelizedPropsMapOf(props) ==
  [k \in {camelize(props[i][1]) : i \in DOMAIN props} |->
     LET i == CHOOSE j \in DOMAIN props :
                /\ camelize(props[j][1]) = k
                /\ \A l \in DOMAIN props : camelize(props[l][1]) = k => l <= j
     IN  props[i][2]]

\* Vue${capitalize(camelize(options?.name))}CustomElement
RenamedClass(name) ==
  << "V", "u", "e" >> \o capitalize(camelize(name))
    \o << "C", "u", "s", "t", "o", "m", "E", "l", "e", "m", "e", "n", "t" >>
DefaultClassName ==
  << "C", "u", "s", "t", "o", "m", "E", "l", "e", "m", "e", "n", "t" >>

\* the rename of the class, lines 259-268: what it leaves of the class name
\* and the debug log, and where wrap goes next.  camelize of a missing
\* options.name throws inside the try, which the catch turns into a debug
\* message; wrap returns the class either way.
\* (a variant without the try and catch: the failure leaves wrap)
RenameUnguarded(name) ==
  IF name = Undef
  THEN [className |-> className, debugLog |-> debugLog, pc |-> "threw"]
  ELSE [className |-> RenamedClass(name.s), debugLog |-> debugLog, pc |-> "wrapped"]
Rename(name) ==
  IF name = Undef
  THEN [className |-> className, debugLog |-> debugLog + 1, pc |-> "wrapped"]
  ELSE [className |-> RenamedClass(name.s), debugLog |-> debugLog, pc |-> "wrapped"]

\* wrap(Component): initialize(), then the guarded rename
VueWrap ==
  /\ pc = "start"
  /\ adapter = "vue"
  /\ IF isInitialized
     THEN UNCHANGED << isInitialized, hyphenatedPropsList, camelizedPropsList,
                       camelizedPropsMap, accessors, installs >>
     ELSE /\ hyphenatedPropsList' = [i \in DOMAIN options.props |-> hyphenate(PropNames(options.props)[i])]
          /\ camelizedPropsList' = [i \in DOMAIN options.props |-> camelize(PropNames(options.props)[i])]
          /\ camelizedPropsMap' = CamelizedPropsMapOf(options.props)
          /\ accessors' = {camelize(PropNames(options.props)[i]) : i \in DOMAIN options.props}
          /\ installs' = installs + 1
          /\ isInitialized' = TRUE
  /\ LET renamed == Rename(options.name)
     IN  /\ className' = renamed.className
         /\ debugLog' = renamed.debugLog
         /\ pc' = renamed.pc
  /\ last' = Quiet("wrap")
  /\ UNCHANGED << adapter, options, domVars, vueVars, reactVars, ops >>

(***************************************************************************)
(* Vue adapter: the element.                                               *)
(***************************************************************************)
TheComponent == [t |-> "component"]
DataVApp == << "d", "a", "t", "a", "-", "v", "-", "a", "p", "p" >>

\* the attribute names the page uses on a Vue element: the hyphenated names
\* of the declared properties and a name that no declared property has
VueAttrNames ==
  { << "u", "s", "e", "r" >>, << "u", "s", "e", "r", "-", "i", "d" >>,
    << "u", "s", "e", "r", "i", "d" >> }
\* and the attributes it sets: << name, value >>
VueAttributes ==
  { << << "u", "s", "e", "r" >>, << "4", "2" >> >>,
    << << "u", "s", "e", "r", "-", "i", "d" >>, << "4", "2" >> >>,
    << << "u", "s", "e", "r", "-", "i", "d" >>, << "a", "b" >> >>,
    << << "u", "s", "e", "r", "i", "d" >>, << "a", "b" >> >> }

\* this._component?.$forceUpdate(): how many re-renders it forces
forceUpdate(component) == IF component # Undef THEN 1 ELSE 0

\* syncSlots, lines 220-226: the captured slot children after it
syncSlots == toVNodes(childNodes)

\* syncAttribute(key), lines 204-216: the props mapping after it
SyncedValue(key) ==
  LET value == IF Has(own, key) THEN own[key]
               ELSE IF hasAttribute(attrs, key) THEN getAttribute(attrs, key)
               ELSE Undef
  IN  convertAttributeValue(value, key, TypeOf(camelizedPropsMap, camelize(key)))
\* (a variant that stores under the attribute's name as it is)
syncAttributeUncamelized(props, key) == Put(props, key, SyncedValue(key))
syncAttribute(props, key) == Put(props, camelize(key), SyncedValue(key))

\* the body of the observer's loop for one record.  st is the callback's
\* progress: the props mapping, the keys synced, the re-renders forced, the
\* records examined and hasChildrenChange.
\* (a variant whose loop gives up on attribute records once a record of
\* another kind has been seen)
ObserverStepStoppingAtChildren(st, m) ==
  IF isInitialized /\ m.type = "attributes" /\ m.target = "self"
  THEN IF m.attributeName # Undef /\ m.attributeName # Str(<< >>)
          /\ ~st.hasChildrenChange
       THEN [st EXCEPT !.props = syncAttribute(st.props, m.attributeName.s),
                       !.synced = Append(st.synced, m.attributeName.s),
                       !.forced = st.forced + forceUpdate(_component),
                       !.examined = st.examined + 1]
       ELSE [st EXCEPT !.examined = st.examined + 1]
  ELSE [st EXCEPT !.hasChildrenChange = TRUE, !.examined = st.examined + 1]
ObserverStep(st, m) ==
  IF isInitialized /\ m.type = "attributes" /\ m.target = "self"
  THEN IF m.attributeName # Undef /\ m.attributeName # Str(<< >>)
       THEN [st EXCEPT !.props = syncAttribute(st.props, m.attributeName.s),
                       !.synced = Append(st.synced, m.attributeName.s),
                       !.forced = st.forced + forceUpdate(_component),
                       !.examined = st.examined + 1]
       ELSE [st EXCEPT !.examined = st.examined + 1]
  ELSE [st EXCEPT !.hasChildrenChange = TRUE, !.examined = st.examined + 1]

RECURSIVE ObserverLoop(_, _, _)
ObserverLoop(st, mutations, i) ==
  IF i > Len(mutations) THEN st
  ELSE ObserverLoop(ObserverStep(st, mutations[i]), mutations, i + 1)

\* the MutationObserver callback, lines 167-184.  The call of syncSlots under
\* hasChildrenChange is commented out in the source.
ObserverStart ==
  [props |-> _props, synced |-> << >>, forced |-> 0, examined |-> 0,
   hasChildrenChange |-> FALSE]
\* (a variant in which the call of syncSlots is not commented out)
ObserverCallbackSyncingSlots(mutations) ==
  LET done == ObserverLoop(ObserverStart, mutations, 1)
  IN  [props |-> done.props, synced |-> done.synced,
       forced |-> done.forced
                    + (IF done.hasChildrenChange THEN forceUpdate(_component) ELSE 0),
       examined |-> done.examined,
       slots |-> IF done.hasChildrenChange THEN syncSlots ELSE _slotChildren]
ObserverCallback(mutations) ==
  LET done == ObserverLoop(ObserverStart, mutations, 1)
  IN  [props |-> done.props, synced |-> done.synced, forced |-> done.forced,
       examined |-> done.examined, slots |-> _slotChildren]

\* syncInitialAttributes, lines 228-233
RECURSIVE SyncAll(_, _, _)
SyncAll(props, keys, i) ==
  IF i > Len(keys) THEN props
  ELSE SyncAll(syncAttribute(props, keys[i]), keys, i + 1)
syncInitialAttributes ==
  SyncAll(getInitialProps(camelizedPropsList), hyphenatedPropsList, 1)

\* constructor, lines 143-191: the class fields, the event proxies, the mini
\* app and the observer.  The element may come with attributes and children,
\* which the parser put there before any observer existed.  The page may
\* create a further element of the type later, which counts among its
\* operations; the state is then that of the new element.
VueConstruct(attrs0, nodes0) ==
  /\ pc = "wrapped" \/ (pc = "constructed" /\ ops < MaxOps)
  /\ adapter = "vue"
  /\ pc' = "constructed"
  /\ ops' = IF pc = "constructed" THEN ops + 1 ELSE ops
  /\ attrs' = attrs0
  /\ childNodes' = nodes0
  /\ own' = EmptyObject
  /\ connected' = FALSE
  /\ _props' = EmptyObject
  /\ _slotChildren' = << >>
  /\ _component' = Undef
  /\ _mounted' = Undef
  /\ appMounted' = FALSE
  /\ observing' = TRUE
  /\ records' = << >>
  /\ last' = Quiet("construct")
  /\ UNCHANGED << wrapVars, reactVars >>

\* this._wrapper.mount(this), line 245, with the mounted hook of lines
\* 158-160.  Vue renders into the host, replacing its children, and marks it
\* with the attribute data-v-app (the key the render function discards, line
\* 152).  An app that is already mounted is not mounted again: Vue clears the
\* host, warns, and mount returns undefined; "again" stands for a framework
\* build that would mount it again.
RemountOutcomes == {"refused", "again"}
RenderedNodes == << "rendered" >>
MountResult(outcome) ==
  IF ~appMounted \/ outcome = "again"
  THEN [component |-> TheComponent, mounted |-> Bool(TRUE), nodes |-> RenderedNodes]
  ELSE [component |-> Undef, mounted |-> _mounted, nodes |-> << >>]

\* callHooks(vm, hook) of utils.js: the hooks of that name of a component
\* that exists are run.  The wrapper app's are mounted(), lines 158-160, and
\* unmounted(), lines 161-163; the result is this._mounted after them.
callHooks(vm, hook) ==
  IF vm = Undef THEN _mounted
  ELSE IF hook = "mounted" THEN Bool(TRUE)
  ELSE IF hook = "unmounted" THEN Bool(FALSE)
  ELSE _mounted

\* which branch connectedCallback takes, line 236
NeedsMount == _component = Undef \/ _mounted # Bool(TRUE)

\* connectedCallback, lines 235-250
VueConnect(outcome) ==
  /\ pc = "constructed"
  /\ adapter = "vue"
  /\ ~connected
  /\ ops < MaxOps
  /\ connected' = TRUE
  /\ IF NeedsMount
     THEN LET m == MountResult(outcome)
              nsync == IF isInitialized THEN Len(hyphenatedPropsList) ELSE 0
          IN  /\ _props' = IF isInitialized THEN syncInitialAttributes ELSE _props
              /\ _slotChildren' = syncSlots
              /\ _component' = m.component
              /\ _mounted' = m.mounted
              /\ appMounted' = TRUE
              /\ childNodes' = m.nodes
              /\ attrs' = setAttribute(attrs, DataVApp, Str(<< >>))
              /\ records' = Queue(records, observing,
                                  (IF childNodes # m.nodes THEN << ChildListRecord >>
                                                           ELSE << >>)
                                    \o setAttributeRecords(DataVApp))
              /\ last' = Report("connect", << "m", "o", "u", "n", "t" >>,
                                (nsync + 1) * forceUpdate(_component),
                                IF isInitialized THEN hyphenatedPropsList ELSE << >>,
                                0, << >>)
     ELSE /\ _mounted' = callHooks(_component, "mounted")
          /\ last' = Report("connect", << "h", "o", "o", "k" >>, 0, << >>, 0, << >>)
          /\ UNCHANGED << _props, _slotChildren, _component, appMounted,
                          childNodes, attrs, records >>
  /\ ops' = ops + 1
  /\ UNCHANGED << wrapVars, pc, own, observing, reactVars >>

\* disconnectedCallback, lines 252-254
\* (a variant whose removal also clears wrap's initialized flag)
VueDisconnectClearingFlag ==
  /\ pc = "constructed"
  /\ adapter = "vue"
  /\ connected
  /\ ops < MaxOps
  /\ connected' = FALSE
  /\ _mounted' = callHooks(_component, "unmounted")
  /\ isInitialized' = FALSE
  /\ ops' = ops + 1
  /\ last' = Quiet("disconnect")
  /\ UNCHANGED << adapter, options, hyphenatedPropsList, camelizedPropsList,
                  camelizedPropsMap, accessors, installs, className, debugLog,
                  pc, attrs, own, childNodes, observing, records,
                  _props, _slotChildren, _component, appMounted, reactVars >>
VueDisconnect ==
  /\ pc = "constructed"
  /\ adapter = "vue"
  /\ connected
  /\ ops < MaxOps
  /\ connected' = FALSE
  /\ _mounted' = callHooks(_component, "unmounted")
  /\ ops' = ops + 1
  /\ last' = Quiet("disconnect")
  /\ UNCHANGED << wrapVars, pc, attrs, own, childNodes, observing, records,
                  _props, _slotChildren, _component, appMounted, reactVars >>

\* the observer's callback runs on everything queued since it last ran
VueDeliver ==
  /\ pc = "constructed"
  /\ adapter = "vue"
  /\ records # << >>
  /\ LET r == ObserverCallback(records)
     IN  /\ _props' = r.props
         /\ _slotChildren' = r.slots
         /\ last' = Report("deliver", << >>, r.forced, r.synced, r.examined, << >>)
  /\ records' = << >>
  /\ UNCHANGED << wrapVars, pc, connected, attrs, own, childNodes, observing,
                  _component, _mounted, appMounted, reactVars, ops >>

(***************************************************************************)
(* Vue adapter: the property accessors installed by initialize.            *)
(***************************************************************************)
\* get(), lines 94-96
Getter(key) == IF Has(_props, key) THEN _props[key] ELSE Undef

\* (a variant whose Boolean case leaves the property's own name out of the
\* strings that mean true)
SetterValueWithoutOwnName(type, key, newVal) ==
  CASE type = "Boolean" ->
         IF IsBool(newVal) THEN newVal
         ELSE Bool(newVal \in {Str(<< >>), Str(<< "t", "r", "u", "e" >>)})
    [] type = "Number" -> parseFloat(newVal)
    [] OTHER -> newVal
\* set(newVal): the local variable value, lines 98-121
SetterValue(type, key, newVal) ==
  CASE type = "Boolean" ->
         IF IsBool(newVal) THEN newVal
         ELSE Bool(newVal \in {Str(<< >>), Str(<< "t", "r", "u", "e" >>), Str(key)})
    [] type = "Number" -> parseFloat(newVal)
    [] OTHER -> newVal

\* set(newVal): the element's attributes after it, lines 106-110 and 118
SetterAttrs(type, key, newVal) ==
  CASE type = "Boolean" ->
         IF SetterValue(type, key, newVal) = Bool(TRUE)
         THEN setAttribute(attrs, key, Str(<< >>))
         ELSE removeAttribute(attrs, key)
    [] type = "String" -> setAttribute(attrs, key, newVal)
    [] OTHER -> attrs

\* set(newVal): the mutation records its attribute writes queue
SetterRecords(type, key, newVal) ==
  CASE type = "Boolean" ->
         IF SetterValue(type, key, newVal) = Bool(TRUE)
         THEN setAttributeRecords(key)
         ELSE removeAttributeRecords(attrs, key)
    [] type = "String" -> setAttributeRecords(key)
    [] OTHER -> << >>

\* set(newVal): the props mapping after it; only the default case writes it,
\* line 122
SetterProps(type, key, newVal) ==
  IF type \in {"Boolean", "Number", "String"} THEN _props
  ELSE Put(_props, key, SetterValue(type, key, newVal))

\* (a variant that re-renders whether or not a component is held)
SetterForcedAlways(type) ==
  IF type \in {"Boolean", "Number", "String"} THEN 0 ELSE 1
\* set(newVal): the re-renders it forces, line 123
SetterForced(type) ==
  IF type \in {"Boolean", "Number", "String"} THEN 0 ELSE forceUpdate(_component)

\* the values the page assigns to a property
SetterInputs(key) ==
  { Bool(TRUE), Bool(FALSE), Str(<< >>), Str(<< "t", "r", "u", "e" >>),
    Str(key), Str(<< "4", "2" >>) }

\* element[key] = newVal for a declared property: the installed setter runs
VuePropertySet(key, newVal) ==
  /\ pc = "constructed"
  /\ adapter = "vue"
  /\ key \in accessors
  /\ ~Has(own, key)
  /\ ops < MaxOps
  /\ LET type == TypeOf(camelizedPropsMap, key)
     IN  /\ attrs' = SetterAttrs(type, key, newVal)
         /\ records' = Queue(records, observing, SetterRecords(type, key, newVal))
         /\ _props' = SetterProps(type, key, newVal)
         /\ last' = Report("set", key, SetterForced(type), << >>, 0, << >>)
  /\ ops' = ops + 1
  /\ UNCHANGED << wrapVars, pc, connected, own, childNodes, observing,
                  _slotChildren, _component, _mounted, appMounted, reactVars >>

\* element[name] = value for a name no accessor intercepts: an own property
ExpandoNames == { << "u", "s", "e", "r", "-", "i", "d" >> }
ExpandoValues == { Str(<< "a", "b" >>) }
AssignOwnProperty(name, value) ==
  /\ pc = "constructed"
  /\ adapter = "vue"
  /\ name \notin accessors
  /\ ops < MaxOps
  /\ own' = Put(own, name, value)
  /\ ops' = ops + 1
  /\ last' = Quiet("expando")
  /\ UNCHANGED << wrapVars, pc, connected, attrs, childNodes, observing,
                  records, vueVars, reactVars >>

(***************************************************************************)
(* Vue adapter: event proxies.                                             *)
(***************************************************************************)
\* createEventProxies(options.emits), lines 193-202: handler key -> the event
\* name its handler dispatches
createEventProxies(eventNames) ==
  IF eventNames = Undef THEN EmptyObject
  ELSE [k \in {toHandlerKey(camelize(n)) : n \in Range(eventNames.a)} |->
          CHOOSE n \in Range(eventNames.a) : toHandlerKey(camelize(n)) = k]

\* the events a handler call dispatches on the host, line 198
ProxyDispatch(name, args) == << createCustomEvent(name, args) >>

\* what the wrapped component emits: << event name, arguments >>
EmitArgs ==
  { << Obj(<< << << "i", "d" >>, Num(1) >> >>) >>, << Num(1), Num(2) >> }
Emits ==
  { << EventSelectMe, << Obj(<< << << "i", "d" >>, Num(1) >> >>) >> >>,
    << EventSelectMe, << Num(1), Num(2) >> >>,
    << << "x" >>, << Num(1) >> >> }

\* the wrapped component emits `name` with `args`: Vue calls the handler it
\* was given under the handler key of that name, if there is one
VueEmit(name, args) ==
  /\ pc = "constructed"
  /\ adapter = "vue"
  /\ appMounted
  /\ ops < MaxOps
  /\ LET proxies == createEventProxies(options.emits)
         hk == toHandlerKey(camelize(name))
     IN  last' = Report("emit", name, 0, << >>, 0,
                        IF Has(proxies, hk) THEN ProxyDispatch(proxies[hk], args)
                        ELSE << >>)
  /\ ops' = ops + 1
  /\ UNCHANGED << wrapVars, pc, domVars, vueVars, reactVars >>

(***************************************************************************)
(* React adapter.                                                          *)
(***************************************************************************)
ReactAttrNames ==
  { << "o", "n", "p", "i", "c", "k" >>, << "m", "a", "x" >> }
ReactAttributes ==
  { << << "o", "n", "p", "i", "c", "k" >>, << >> >>,
    << << "m", "a", "x" >>, << "t", "r", "u", "e" >> >>,
    << << "m", "a", "x" >>, << "4", "2" >> >>,
    << << "m", "a", "x" >>, << "{", "}" >> >>,
    << << "m", "a", "x" >>, << "{", "a", "}" >> >> }

\* isNaN(string): whether Number(string) is NaN; the empty string is 0
IsNaNString(s) == s # << >> /\ DigitPrefix(s) # Len(s)

\* /^{.*}/.exec(s): an opening brace first and a closing brace after it
LooksLikeJson(s) ==
  /\ s # << >>
  /\ s[1] = "{"
  /\ \E i \in 2..Len(s) : s[i] = "}"

\* JSON.parse on a string that /^{.*}/ matches: "{}" is the empty object; a
\* brace pair around anything that is not a list of members is a SyntaxError
JsonParse(s) ==
  IF s = << "{", "}" >> THEN [threw |-> FALSE, value |-> Obj(<< >>)]
  ELSE [threw |-> TRUE, value |-> Undef]

\* convert(attrName, attrValue), lines 77-88
convert(attrName, attrValue) ==
  IF attrValue \in {<< "t", "r", "u", "e" >>, << "f", "a", "l", "s", "e" >>}
  THEN [threw |-> FALSE, name |-> attrName,
        value |-> Bool(attrValue = << "t", "r", "u", "e" >>)]
  ELSE IF ~IsNaNString(attrValue) /\ attrValue # << >>
  THEN [threw |-> FALSE, name |-> attrName, value |-> Num(DigitsValue(attrValue))]
  ELSE IF LooksLikeJson(attrValue)
  THEN [threw |-> JsonParse(attrValue).threw, name |-> attrName,
        value |-> JsonParse(attrValue).value]
  ELSE [threw |-> FALSE, name |-> attrName, value |-> Str(attrValue)]

\* /on([a-z].*)/.exec(name): "on" and a lower-case letter, anywhere in the name
IsEventAttribute(name) ==
  \E i \in 1..(Len(name) - 2) :
     name[i] = "o" /\ name[i + 1] = "n" /\ IsLower(name[i + 2])

\* getEventCallback(eventName), lines 69-75, as the value of a prop
EventCallback(eventName) == [t |-> "function", event |-> eventName]

\* { ...payload }: the own enumerable entries of the payload
RECURSIVE IndexedChars(_, _)
IndexedChars(s, i) ==
  IF i > Len(s) THEN << >>
  ELSE << << NatToString(i - 1), Str(<< s[i] >>) >> >> \o IndexedChars(s, i + 1)
Spread(payload) ==
  CASE payload.t = "object" -> Obj(payload.o)
    [] payload.t = "string" -> Obj(IndexedChars(payload.s, 1))
    [] OTHER -> Obj(<< >>)

\* the events a call of the callback dispatches: one CustomEvent whose detail
\* spreads the first argument
CallbackDispatch(eventName, args) ==
  << [name |-> eventName,
      detail |-> Spread(IF args = << >> THEN Undef ELSE args[1])] >>

\* mount(), lines 31-38: getProps (without style), getEvents over them, and
\* the children; convert may throw, and then nothing is rendered
StyleName == << "s", "t", "y", "l", "e" >>
MountThrows(a) ==
  \E n \in DOMAIN a : n # StyleName /\ convert(n, a[n]).threw
MountProps(a, html) ==
  [props |-> [n \in DOMAIN a \ {StyleName} |->
                 IF IsEventAttribute(n) THEN EventCallback(n)
                 ELSE convert(n, a[n]).value],
   children |-> html]

\* wrap(ReactComponent), lines 126-174: the class, and nothing else
ReactWrap ==
  /\ pc = "start"
  /\ adapter = "react"
  /\ pc' = "wrapped"
  /\ last' = Quiet("wrap")
  /\ UNCHANGED << wrapVars, domVars, vueVars, reactVars, ops >>

\* constructor, lines 6-10
ReactConstruct(attrs0, nodes0) ==
  /\ pc = "wrapped"
  /\ adapter = "react"
  /\ pc' = "constructed"
  /\ attrs' = attrs0
  /\ childNodes' = nodes0
  /\ own' = EmptyObject
  /\ connected' = FALSE
  /\ observing' = TRUE
  /\ records' = << >>
  /\ _innerHTML' = Undef
  /\ rendered' = Undef
  /\ last' = Quiet("construct")
  /\ UNCHANGED << wrapVars, vueVars, ops >>

\* connectedCallback, lines 12-15
ReactConnect ==
  /\ pc = "constructed"
  /\ adapter = "react"
  /\ ~connected
  /\ ops < MaxOps
  /\ connected' = TRUE
  /\ _innerHTML' = Arr(childNodes)
  /\ IF MountThrows(attrs)
     THEN /\ UNCHANGED rendered
          /\ last' = Report("connect", << "t", "h", "r", "e", "w" >>, 0, << >>, 0, << >>)
     ELSE /\ rendered' = MountProps(attrs, childNodes)
          /\ last' = Quiet("connect")
  /\ ops' = ops + 1
  /\ UNCHANGED << wrapVars, pc, attrs, own, childNodes, observing, records, vueVars >>

\* disconnectedCallback, lines 17-20: disconnecting the observer empties its
\* queue.  A removal is not counted among the page's operations: each one
\* needs a connection before it, and those are counted.
ReactDisconnect ==
  /\ pc = "constructed"
  /\ adapter = "react"
  /\ connected
  /\ connected' = FALSE
  /\ rendered' = Undef
  /\ observing' = FALSE
  /\ records' = << >>
  /\ last' = Quiet("disconnect")
  /\ UNCHANGED << wrapVars, pc, attrs, own, childNodes, vueVars, _innerHTML, ops >>

\* the observer's callback, line 8: update(), lines 22-25
ReactDeliver ==
  /\ pc = "constructed"
  /\ adapter = "react"
  /\ records # << >>
  /\ records' = << >>
  /\ IF MountThrows(attrs)
     THEN /\ rendered' = Undef
          /\ last' = Report("deliver", << "t", "h", "r", "e", "w" >>, 0, << >>, Len(records), << >>)
     ELSE /\ rendered' = MountProps(attrs, childNodes)
          /\ last' = Report("deliver", << >>, 0, << >>, Len(records), << >>)
  /\ UNCHANGED << wrapVars, pc, connected, attrs, own, childNodes, observing,
                  vueVars, _innerHTML, ops >>

\* the wrapped component calls the callback it was given as prop `name`
ReactInvoke(name, args) ==
  /\ pc = "constructed"
  /\ adapter = "react"
  /\ rendered # Undef
  /\ Has(rendered.props, name)
  /\ rendered.props[name].t = "function"
  /\ ops < MaxOps
  /\ last' = Report("emit", name, 0, << >>, 0,
                    CallbackDispatch(rendered.props[name].event, args))
  /\ ops' = ops + 1
  /\ UNCHANGED << wrapVars, pc, domVars, vueVars, reactVars >>

(***************************************************************************)
(* The page: what it does to the host element.                             *)
(***************************************************************************)
AttrNames == IF adapter = "vue" THEN VueAttrNames ELSE ReactAttrNames
PageAttributes == IF adapter = "vue" THEN VueAttributes ELSE ReactAttributes

\* the attributes and children an element is created with
InitialElements ==
  IF adapter = "vue"
  THEN { [attrs |-> EmptyObject, nodes |-> << >>],
         [attrs |-> [n \in {<< "u", "s", "e", "r", "-", "i", "d" >>} |-> << "4", "2" >>],
          nodes |-> << "slot" >>] }
  ELSE { [attrs |-> EmptyObject, nodes |-> << >>],
         [attrs |-> [n \in {<< "o", "n", "p", "i", "c", "k" >>} |-> << >>],
          nodes |-> << "slot" >>] }

SetAttribute(name, value) ==
  /\ pc = "constructed"
  /\ ops < MaxOps
  /\ attrs' = setAttribute(attrs, name, Str(value))
  /\ records' = Queue(records, observing, setAttributeRecords(name))
  /\ ops' = ops + 1
  /\ last' = Quiet("setAttribute")
  /\ UNCHANGED << wrapVars, pc, connected, own, childNodes, observing,
                  vueVars, reactVars >>

RemoveAttribute(name) ==
  /\ pc = "constructed"
  /\ ops < MaxOps
  /\ hasAttribute(attrs, name)
  /\ attrs' = removeAttribute(attrs, name)
  /\ records' = Queue(records, observing, removeAttributeRecords(attrs, name))
  /\ ops' = ops + 1
  /\ last' = Quiet("removeAttribute")
  /\ UNCHANGED << wrapVars, pc, connected, own, childNodes, observing,
                  vueVars, reactVars >>

\* a change below the element: its child list, the text of a descendant, or
\* an attribute of a descendant
SubtreeRecords == { ChildListRecord, CharacterDataRecord, DescendantAttributeRecord }
MutateSubtree(rec) ==
  /\ pc = "constructed"
  /\ ops < MaxOps
  /\ childNodes' = IF rec.type = "childList"
                   THEN (IF childNodes = << >> THEN << "slot" >> ELSE << >>)
                   ELSE childNodes
  /\ rec.type # "childList" => childNodes # << >>
  /\ records' = Queue(records, observing, << rec >>)
  /\ ops' = ops + 1
  /\ last' = Quiet("mutateSubtree")
  /\ UNCHANGED << wrapVars, pc, connected, attrs, own, observing, vueVars, reactVars >>

(***************************************************************************)
(* The specification.                                                      *)
(***************************************************************************)
Init ==
  /\ adapter \in {"vue", "react"}
  /\ options \in (IF adapter = "vue" THEN ComponentOptions ELSE {ReactComponent})
  /\ pc = "start"
  /\ isInitialized = FALSE
  /\ hyphenatedPropsList = << >>
  /\ camelizedPropsList = << >>
  /\ camelizedPropsMap = EmptyObject
  /\ accessors = {}
  /\ installs = 0
  /\ className = DefaultClassName
  /\ debugLog = 0
  /\ connected = FALSE
  /\ attrs = EmptyObject
  /\ own = EmptyObject
  /\ childNodes = << >>
  /\ observing = FALSE
  /\ records = << >>
  /\ _props = EmptyObject
  /\ _slotChildren = << >>
  /\ _component = Undef
  /\ _mounted = Undef
  /\ appMounted = FALSE
  /\ _innerHTML = Undef
  /\ rendered = Undef
  /\ ops = 0
  /\ last = Quiet("init")

Next ==
  \/ VueWrap
  \/ \E e \in InitialElements : VueConstruct(e.attrs, e.nodes)
  \/ \E o \in RemountOutcomes : VueConnect(o)
  \/ VueDisconnect
  \/ VueDeliver
  \/ \E k \in accessors : \E v \in SetterInputs(k) : VuePropertySet(k, v)
  \/ \E n \in ExpandoNames, v \in ExpandoValues : AssignOwnProperty(n, v)
  \/ \E e \in Emits : VueEmit(e[1], e[2])
  \/ ReactWrap
  \/ \E e \in InitialElements : ReactConstruct(e.attrs, e.nodes)
  \/ ReactConnect
  \/ ReactDisconnect
  \/ ReactDeliver
  \/ \E n \in ReactAttrNames, a \in EmitArgs : ReactInvoke(n, a)
  \/ \E a \in PageAttributes : SetAttribute(a[1], a[2])
  \/ \E n \in AttrNames : RemoveAttribute(n)
  \/ \E r \in SubtreeRecords : MutateSubtree(r)

Spec == Init /\ [][Next]_vars

(***************************************************************************)
(* Properties.                                                             *)
(***************************************************************************)
TrueString == << "t", "r", "u", "e" >>
DeclaredKeys == Range(camelizedPropsList)
IsVueElement == adapter = "vue" /\ pc = "constructed"
\* a step of the observer's callback
IsRecordOfElement(m) == m.type = "attributes" /\ m.target = "self"

\* C1: once the props mapping of a Vue element has been populated on its
\* first connection, its keys are the camelCased names of the declared
\* properties, whatever attributes are mutated, properties assigned and
\* connections made afterwards.
C1_KeySetIsDeclared ==
  (IsVueElement /\ appMounted) => DOMAIN _props = DeclaredKeys

\* C2: connecting again an element that was connected and mounted and then
\* disconnected runs only the mounted hook: no prop initialization, no slot
\* capture, no mount, and the props mapping and the slot children are as
\* before.
Reconnection ==
  /\ IsVueElement
  /\ ~connected /\ connected'
  /\ appMounted /\ _component # Undef
C2_ReconnectOnlyCallsHook ==
  [][Reconnection =>
       /\ last'.key = << "h", "o", "o", "k" >>
       /\ _props' = _props
       /\ _slotChildren' = _slotChildren]_vars

\* C3: after a value is assigned to a declared Number property of a mounted
\* element through the setter, the props mapping holds the numeric parse of
\* that value under the property's name, which is what the getter returns.
C3_NumberSetterStoresParse ==
  [][\A k \in accessors : \A v \in SetterInputs(k) :
       (/\ VuePropertySet(k, v)
        /\ appMounted
        /\ TypeOf(camelizedPropsMap, k) = "Number")
         => (Has(_props', k) /\ _props'[k] = parseFloat(v))]_vars

\* C4: the setter of a declared Boolean property takes a boolean input as it
\* is and any other input as true exactly when it is "", "true" or the
\* property's own name; when the setter returns the element has the attribute
\* if and only if that value is true.
BooleanOf(key, input) ==
  IF input \in {Bool(TRUE), Bool(FALSE)} THEN input = Bool(TRUE)
  ELSE input \in {Str(<< >>), Str(TrueString), Str(key)}
C4_BooleanSetterReflects ==
  [][\A k \in accessors : \A v \in SetterInputs(k) :
       (VuePropertySet(k, v) /\ TypeOf(camelizedPropsMap, k) = "Boolean")
         => (hasAttribute(attrs', k) <=> BooleanOf(k, v))]_vars
\* the setter of the two-word Boolean property has set its attribute
C4_Witness ==
  /\ IsVueElement
  /\ last.op = "set"
  /\ last.key = PropUserId
  /\ TypeOf(camelizedPropsMap, last.key) = "Boolean"
  /\ hasAttribute(attrs, last.key)

\* the attribute records of the element itself in a batch, as attribute names
RECURSIVE ElementAttributeNames(_)
ElementAttributeNames(batch) ==
  IF batch = << >> THEN << >>
  ELSE (IF IsRecordOfElement(batch[1]) /\ batch[1].attributeName # Undef
        THEN << batch[1].attributeName.s >> ELSE << >>)
       \o ElementAttributeNames(Tail(batch))
IsNumeric(s) == s # << >> /\ \A i \in DOMAIN s : s[i] \in DigitSet
NumberProps == {i \in DOMAIN camelizedPropsList :
                  TypeOf(camelizedPropsMap, camelizedPropsList[i]) = "Number"}

\* C5 as claimed: once the observer has been given a mutation of the
\* hyphenated attribute of a declared Number property, and the attribute
\* holds a numeric string, the props mapping holds the parsed number under
\* the camelCased name.
C5_NumberAttributeParsed ==
  [][\A i \in NumberProps :
       LET h == hyphenatedPropsList[i]
           c == camelizedPropsList[i]
       IN  (/\ VueDeliver
            /\ h \in Range(ElementAttributeNames(records))
            /\ hasAttribute(attrs, h)
            /\ IsNumeric(attrs[h]))
             => (Has(_props', c) /\ _props'[c] = Num(DigitsValue(attrs[h])))]_vars

\* C5, amended: the same, for an element that has no own property named like
\* the attribute; and when that mutation is all the observer is given, no
\* other entry of the props mapping changes.
C5_NumberAttributeParsedUnlessOwn ==
  [][\A i \in NumberProps :
       LET h == hyphenatedPropsList[i]
           c == camelizedPropsList[i]
       IN  (/\ VueDeliver
            /\ h \in Range(ElementAttributeNames(records))
            /\ hasAttribute(attrs, h)
            /\ IsNumeric(attrs[h])
            /\ ~Has(own, h))
             => /\ Has(_props', c)
                /\ _props'[c] = Num(DigitsValue(attrs[h]))
                /\ Range(ElementAttributeNames(records)) = {h}
                     => /\ DOMAIN _props' = DOMAIN _props \cup {c}
                        /\ \A k \in DOMAIN _props \ {c} : _props'[k] = _props[k]]_vars
\* the observer has turned user-id="42" into userId = 42
C5_Witness ==
  /\ IsVueElement
  /\ last.op = "deliver"
  /\ last.synced = << << "u", "s", "e", "r", "-", "i", "d" >> >>
  /\ TypeOf(camelizedPropsMap, PropUserId) = "Number"
  /\ ~Has(own, << "u", "s", "e", "r", "-", "i", "d" >>)
  /\ Has(_props, PropUserId)
  /\ _props[PropUserId] = Num(42)

\* C6: assigning a value to a declared property whose type is none of
\* Boolean, Number and String stores that value under the property's key,
\* changes no other key and no attribute, and forces a re-render exactly when
\* the element holds a mounted component.
C6_UntypedSetterFrame ==
  [][\A k \in accessors : \A v \in SetterInputs(k) :
       (/\ VuePropertySet(k, v)
        /\ TypeOf(camelizedPropsMap, k) \notin {"Boolean", "Number", "String"})
         => /\ Has(_props', k) /\ _props'[k] = v
            /\ DOMAIN _props' = DOMAIN _props \cup {k}
            /\ \A j \in DOMAIN _props \ {k} : _props'[j] = _props[j]
            /\ attrs' = attrs
            /\ records' = records
            /\ last'.forced = (IF _component # Undef THEN 1 ELSE 0)]_vars
\* the setter of an untyped property has forced a re-render
C6_Witness ==
  /\ IsVueElement
  /\ last.op = "set"
  /\ TypeOf(camelizedPropsMap, last.key) \notin {"Boolean", "Number", "String"}
  /\ last.forced = 1
  /\ Has(_props, last.key)
  /\ _props[last.key] = Str(TrueString)

\* the attribute the String setter wrote for `key` holds a value that, of the
\* values the page assigns, only a string leaves there
AssignedString(key) ==
  /\ hasAttribute(attrs, key)
  /\ attrs[ToLowerCase(key)] \notin {TrueString, << "f", "a", "l", "s", "e" >>}

\* C7: assigning a string to a declared String property sets the element's
\* attribute for it to that string, and once the observer has run on the
\* resulting mutation the props mapping holds the string under the
\* property's camelCased name.
C7_StringSetterReachesProps ==
  /\ [][\A k \in accessors : \A v \in SetterInputs(k) :
          (/\ VuePropertySet(k, v)
           /\ TypeOf(camelizedPropsMap, k) = "String"
           /\ IsStr(v))
            => (hasAttribute(attrs', k) /\ getAttribute(attrs', k) = v)]_vars
  /\ [][(/\ VueDeliver
         /\ appMounted
         /\ last.op = "set"
         /\ TypeOf(camelizedPropsMap, last.key) = "String"
         /\ AssignedString(last.key))
          => (/\ Has(_props', last.key)
              /\ _props'[last.key] = getAttribute(attrs, last.key))]_vars

\* the detail of a dispatched event holds what the component passed: the
\* arguments, or the one argument itself
Carries(detail, args) ==
  \/ detail = Arr(args)
  \/ (Len(args) = 1 /\ detail = args[1])
DeclaredEvents == IF options.emits = Undef THEN {} ELSE Range(options.emits.a)

\* C8: in either adapter every call of a handler made for a declared event
\* dispatches exactly one CustomEvent on the host, named after the event and
\* carrying the arguments of the call in its detail; nothing is dispatched
\* for an event that was not declared, and nothing without such a call.
C8_OneEventPerHandlerCall ==
  /\ [][\A e \in Emits :
          VueEmit(e[1], e[2])
            => IF e[1] \in DeclaredEvents
               THEN /\ Len(last'.events) = 1
                    /\ last'.events[1].name = e[1]
                    /\ Carries(last'.events[1].detail, e[2])
               ELSE last'.events = << >>]_vars
  /\ [][\A n \in ReactAttrNames : \A a \in EmitArgs :
          ReactInvoke(n, a)
            => /\ Len(last'.events) = 1
               /\ last'.events[1].name = n
               /\ Carries(last'.events[1].detail, a)]_vars
  /\ [][last'.op # "emit" => last'.events = << >>]_vars

\* C9: of a batch given to the Vue observer, exactly the attribute records of
\* the element itself are re-derived, once each and in the order of the
\* batch, whatever other records stand between them; and every record of the
\* batch is examined.
C9_BatchSyncsEachAttributeRecord ==
  [][VueDeliver =>
       /\ last'.synced = ElementAttributeNames(records)
       /\ last'.examined = Len(records)
       /\ last'.forced = Len(last'.synced) * (IF _component # Undef THEN 1 ELSE 0)]_vars
\* the observer has run on a batch that mixes attribute records of the
\* element with other records
C9_Witness ==
  /\ IsVueElement
  /\ last.op = "deliver"
  /\ Len(last.synced) >= 2
  /\ last.examined > Len(last.synced)

Removed ==
  /\ pc = "constructed"
  /\ ~connected
  /\ IF adapter = "vue" THEN appMounted ELSE _innerHTML # Undef

\* C11: in both adapters the observer is disconnected when the element is
\* removed: once disconnectedCallback has run, an attribute the page sets on
\* or removes from the removed element queues no mutation record, so that no
\* callback re-syncs a prop, re-renders or re-mounts because of it.
C11_RemovedElementObservesNothing ==
  [][/\ \A a \in PageAttributes :
          (Removed /\ SetAttribute(a[1], a[2])) => records' = records
     /\ \A n \in AttrNames :
          (Removed /\ RemoveAttribute(n)) => records' = records]_vars

\* C12: attribute coercion never raises an error: whenever the React adapter
\* mounts or updates, convert completes for every attribute of the element,
\* whatever its string (numeric or not, shaped like a JSON object or not),
\* and the component is rendered with a value for each of them.
C12_CoercionNeverThrows ==
  [][(ReactConnect \/ ReactDeliver)
       => /\ \A n \in DOMAIN attrs : ~convert(n, attrs[n]).threw
          /\ rendered' # Undef
          /\ DOMAIN rendered'.props = DOMAIN attrs \ {StyleName}]_vars

\* C13: in the Vue adapter's wrap a failure of the rename is caught, logged
\* as one debug message and changes nothing else: wrap returns the class
\* with its name as it was, and the initialized flag, the prop-name lists and
\* the installed accessors are what the declared props alone determine, the
\* same as when the rename succeeds.
C13_RenameFailureIsOnlyLogged ==
  [][VueWrap
       => /\ pc' = "wrapped"
          /\ isInitialized'
          /\ installs' = 1
          /\ accessors' = {camelize(options.props[i][1]) : i \in DOMAIN options.props}
          /\ camelizedPropsList'
               = [i \in DOMAIN options.props |-> camelize(options.props[i][1])]
          /\ hyphenatedPropsList'
               = [i \in DOMAIN options.props |-> hyphenate(options.props[i][1])]
          /\ UNCHANGED << domVars, vueVars, reactVars >>
          /\ IF options.name = Undef
             THEN debugLog' = debugLog + 1 /\ className' = className
             ELSE debugLog' = debugLog /\ className' = RenamedClass(options.name.s)]_vars
\* wrap has returned the class for a component without a name: the rename
\* failed, and the accessors are installed
C13_Witness ==
  /\ adapter = "vue"
  /\ pc = "wrapped"
  /\ options.name = Undef
  /\ debugLog = 1
  /\ className = DefaultClassName
  /\ isInitialized
  /\ accessors # {}

\* C14: in the Vue adapter a connectedCallback that finds no mounted
\* component (the condition of line 236) populates the props mapping from the
\* current attributes for every declared property, then captures the child
\* nodes the element has at that moment as slot content, then mounts the
\* component; when it returns the component handle is set and the props
\* mapping has an entry for every declared property.
C14_ConnectPopulatesCapturesMounts ==
  [][\A o \in RemountOutcomes :
       (VueConnect(o) /\ NeedsMount)
         => /\ last'.key = << "m", "o", "u", "n", "t" >>
            /\ last'.synced = hyphenatedPropsList
            /\ DeclaredKeys \subseteq DOMAIN _props'
            /\ \A i \in DOMAIN hyphenatedPropsList :
                  _props'[camelizedPropsList[i]] = SyncedValue(hyphenatedPropsList[i])
            /\ _slotChildren' = toVNodes(childNodes)
            /\ appMounted'
            /\ _component' # Undef]_vars

\* The React adapter alone.  The observer's callback is a microtask: once
\* records are queued it runs.
ReactInit == Init /\ adapter = "react"
ReactNext ==
  \/ ReactWrap
  \/ \E e \in InitialElements : ReactConstruct(e.attrs, e.nodes)
  \/ ReactConnect
  \/ ReactDisconnect
  \/ ReactDeliver
  \/ \E n \in ReactAttrNames, a \in EmitArgs : ReactInvoke(n, a)
  \/ \E a \in PageAttributes : SetAttribute(a[1], a[2])
  \/ \E n \in AttrNames : RemoveAttribute(n)
  \/ \E r \in SubtreeRecords : MutateSubtree(r)
ReactSpec == ReactInit /\ [][ReactNext]_vars /\ WF_vars(ReactDeliver)

\* the connected React element shows a component whose props are not the
\* ones its current attributes give, or none, although they convert
Stale ==
  /\ adapter = "react"
  /\ pc = "constructed"
  /\ connected
  /\ ~MountThrows(attrs)
  /\ (rendered = Undef \/ rendered.props # MountProps(attrs, childNodes).props)
\* it shows the component with the props its current attributes give
Fresh ==
  /\ connected
  /\ rendered # Undef
  /\ rendered.props = MountProps(attrs, childNodes).props

\* C15: in the React adapter every attribute change made while the element
\* is connected is eventually followed by an unmount and a mount with the
\* props derived from the element's current attributes, in every connection
\* period of the element: unless the element is removed first or an
\* attribute stops converting, a stale component is eventually replaced by an
\* up-to-date one.
C15_AttributeChangeRemounts ==
  Stale ~> (Fresh \/ ~connected \/ MountThrows(attrs))

\* C16: in the React adapter the wrapped component is mounted into the
\* element only while the element is connected: in every reachable state a
\* mounted component implies a connected element.
C16_MountedOnlyWhileConnected ==
  (adapter = "react" /\ rendered # Undef) => connected

\* C17: in the Vue adapter the initialized flag is true whenever an element
\* of the wrapped type exists, and the accessors are installed exactly once
\* per wrap call: no step after wrap (constructing, connecting, removing,
\* mutating or assigning to an element) installs them again or changes the
\* flag, the prop-name lists or the prop map.
C17_InitializedOnceForAllElements ==
  [][adapter = "vue"
       => /\ pc' = "constructed" => (isInitialized' /\ installs' = 1)
          /\ pc # "start"
               => UNCHANGED << isInitialized, installs, accessors,
                               hyphenatedPropsList, camelizedPropsList,
                               camelizedPropsMap >>]_vars
\* a further element of the type has just been constructed, after other
\* operations of the page on an earlier one
C17_Witness ==
  /\ IsVueElement
  /\ last.op = "construct"
  /\ ops >= 2
  /\ isInitialized
  /\ installs = 1
  /\ accessors = DeclaredKeys
====
